---- MODULE Spec2Model ----
(***************************************************************************)
(* IBaseRepository (typeorm-base-repository.ts): the generic repository    *)
(* facade over one entity type, its mutating calls, and the live           *)
(* subscriptions it hands to GatewaysStorage.                              *)
(*                                                                         *)
(* The backing store is a map id -> row.  A row carries a version that is  *)
(* bumped by every write or delete of that id, so that "older" and         *)
(* "post-write" are comparisons of versions.  Every store read returns     *)
(* the ids it found together with the versions it saw (field `at`).        *)
(*                                                                         *)
(* Asynchronous functions are cut at their awaits: a mutating call is the  *)
(* store write, then the continuation that fires the trigger and issues    *)
(* the re-read, then the re-read itself.  A listener started by a          *)
(* subscribe call or by a trigger is a task in `tasks` until its store     *)
(* read resolves.                                                          *)
(*                                                                         *)
(* GatewaysStorage (subscription-storage.ts) is imported by the facade     *)
(* but its source is not part of the files at hand; its four operations    *)
(* are modelled from sections 3, 4.4, 5 and 6 of the specification.        *)
(***************************************************************************)
EXTENDS Bags, FiniteSets, Integers, Sequences, TLC

\* The universe of the model.
Ids == {1, 2}
Sockets == {"s1", "s2"}
Channels == {"a", "b"}

\* Number of mutating calls, of subscribe calls, and of both together that
\* the environment makes in one behaviour.
MaxCalls == 2
MaxSubs == 2
MaxOps == 3

CallIds == 1..MaxCalls
SubIds == 1..MaxSubs

\* A listener run is tagged with the mutating call c \in CallIds whose trigger
\* started it, or with 0 when a subscribe call started it (initial snapshot),
\* and with the ids that trigger was handed.
IsInitial(t) == t.call = 0

VARIABLES
  store,      \* [Ids -> [present, ver]]: the rows behind this.repo
  connected,  \* [Sockets -> BOOLEAN]: sockets that have not disconnected
  subs,       \* the registry of GatewaysStorage: the Active subscriptions
  nextSid,    \* identity of the next subscription object
  subCalls,   \* [SubIds -> state of the subscribe call that created it]
  calls,      \* [CallIds -> the mutating call's record]
  tasks,      \* listener runs in flight: [sub, call, ids]
  pushed,     \* bag of frames emitted to sockets
  dropped,    \* listener runs whose result was discarded
  reads       \* the read calls made so far, in order, with what they returned

vars ==
  <<store, connected, subs, nextSid, subCalls, calls, tasks, pushed, dropped, reads>>

\* Calls made so far, and whether the environment may make another one.
OpsMade ==
  (nextSid - 1) + Cardinality({c \in CallIds : calls[c].pc # "idle"}) + Len(reads)

WithinBudget == OpsMade < MaxOps

----------------------------------------------------------------------------
(* The store, as this.repo exposes it.                                      *)

Versions == [i \in Ids |-> store[i].ver]

Present == {i \in Ids : store[i].present}

\* this.repo.findOneOrFail(id, {relations}): rejects when no row matches.
repoFindOneOrFail(id) ==
  [ok |-> store[id].present,
   rows |-> IF store[id].present THEN {id} ELSE {},
   at |-> Versions, hits |-> 1, shape |-> "entity"]

\* this.repo.findOne(id, {relations}): undefined when no row matches.
repoFindOne(id) ==
  [ok |-> TRUE,
   rows |-> IF store[id].present THEN {id} ELSE {},
   at |-> Versions, hits |-> 1, shape |-> "entity"]

\* this.repo.findByIds(ids, {relations}): missing ids are silently absent.
repoFindByIds(ids) ==
  [ok |-> TRUE, rows |-> ids \cap Present, at |-> Versions,
   hits |-> 1, shape |-> "entity"]

\* this.repo.find({...options, relations})
repoFind ==
  [ok |-> TRUE, rows |-> Present, at |-> Versions,
   hits |-> 1, shape |-> "entity"]

\* Mutant: save merges into the rows that exist and inserts none.
repoSaveWithoutInsert(ids) ==
  [i \in Ids |-> IF i \in ids
                 THEN [present |-> store[i].present, ver |-> store[i].ver + 1]
                 ELSE store[i]]

\* this.repo.save(entities): insert the absent rows, merge into the others.
repoSave(ids) ==
  [i \in Ids |-> IF i \in ids
                 THEN [present |-> TRUE, ver |-> store[i].ver + 1]
                 ELSE store[i]]

\* this.repo.delete(ids)
repoDelete(ids) ==
  [i \in Ids |-> IF i \in ids
                 THEN [present |-> FALSE, ver |-> store[i].ver + 1]
                 ELSE store[i]]

----------------------------------------------------------------------------
(* Read path of the facade.  A result is the set of row ids found, the       *)
(* versions read (`at`), the number of calls made on this.repo (`hits`) and *)
(* the shape of what is returned: "entity" as the store gave it,            *)
(* "projected" once parseQuery has trimmed it to the query spec.            *)

\* parseQuery(query, value): trims the fields and keeps the rows, a missing
\* row stays missing.  (shared/domain, not part of the files at hand.)
parseQuery(r) == [r EXCEPT !.shape = "projected"]

\* findOneOrFail(id) and findOneOrFail(id, query); q: a query spec is given.
\* The rejection of this.repo.findOneOrFail leaves before parseQuery.
findOneOrFail(id, q) ==
  LET dbRes == repoFindOneOrFail(id) IN
  IF q /\ dbRes.ok THEN parseQuery(dbRes) ELSE dbRes

\* Mutant: findOne reads with the rejecting find.
findOneRejecting(id, q) == findOneOrFail(id, q)

\* findOne(id) and findOne(id, query)
findOne(id, q) ==
  IF q THEN parseQuery(repoFindOne(id)) ELSE repoFindOne(id)

\* Mutant: findMany hands the empty list to the store as well.
findManyWithoutShortCircuit(ids, q) ==
  IF q THEN parseQuery(repoFindByIds(ids)) ELSE repoFindByIds(ids)

\* findMany(ids) and findMany(ids, query)
findMany(ids, q) ==
  IF ids = {}
  THEN [ok |-> TRUE, rows |-> {}, at |-> Versions, hits |-> 0, shape |-> "entity"]
  ELSE IF q THEN parseQuery(repoFindByIds(ids)) ELSE repoFindByIds(ids)

\* findAll() and findAll(query)
findAll(q) == IF q THEN parseQuery(repoFind) ELSE repoFind

provisionQuery == repoFind

\* query(query, options)
query == parseQuery(provisionQuery)

----------------------------------------------------------------------------
(* Listeners: the closures the subscribe functions hand to the storage.     *)

oneEntityListener(id) == [flavor |-> "one", ids |-> {id}]

manyEntitiesListener(ids) == [flavor |-> "many", ids |-> ids]

queryListener == [flavor |-> "query", ids |-> {}]

\* Mutant: the single-entity listener reads with a find that never rejects.
RunListenerNeverRejecting(l) ==
  IF l.flavor = "query" THEN provisionQuery ELSE repoFindByIds(l.ids)

\* Running a listener: the store read its closure performs.
RunListener(l) ==
  CASE l.flavor = "one" -> repoFindOneOrFail(CHOOSE i \in l.ids : TRUE)
    [] l.flavor = "many" -> repoFindByIds(l.ids)
    [] l.flavor = "query" -> provisionQuery

----------------------------------------------------------------------------
(* GatewaysStorage.                                                         *)

\* Identity filters: a fixed id set, or "always".  The subscribe functions
\* hand the storage {socket, channel, listener, query} and no ids; the id set
\* of the filter is the one the listener was built for.
IdsFilter(ids) == [always |-> FALSE, ids |-> ids]

Always == [always |-> TRUE, ids |-> {}]

\* Does the identity filter of subscription s intersect the affected ids?
Matches(s, ids) ==
  \/ s.filter.always
  \/ s.filter.ids \cap ids # {}

NewSub(socket, channel, filter, listener) ==
  [sid |-> nextSid, socket |-> socket, channel |-> channel,
   filter |-> filter, listener |-> listener]

\* Mutant: the new subscription is added next to the one the pair holds.
ProvisionKeepingOld(s) ==
  /\ WithinBudget
  /\ nextSid <= MaxSubs
  /\ connected[s.socket]
  /\ subs' = subs \cup {s}
  /\ tasks' = tasks \cup {[sub |-> s, call |-> 0, ids |-> {}]}
  /\ nextSid' = nextSid + 1
  /\ subCalls' = [subCalls EXCEPT ![s.sid] = "pending"]
  /\ UNCHANGED <<store, connected, calls, pushed, dropped, reads>>

\* Register (replacing what the pair holds) and start the initial recompute.
Provision(s) ==
  /\ WithinBudget
  /\ nextSid <= MaxSubs
  /\ connected[s.socket]
  /\ subs' = {x \in subs : ~(x.socket = s.socket /\ x.channel = s.channel)} \cup {s}
  /\ tasks' = tasks \cup {[sub |-> s, call |-> 0, ids |-> {}]}
  /\ nextSid' = nextSid + 1
  /\ subCalls' = [subCalls EXCEPT ![s.sid] = "pending"]
  /\ UNCHANGED <<store, connected, calls, pushed, dropped, reads>>

\* Mutant: the filter is the ids of the rows the listener finds at
\* registration.
provisionIdsSubscriptionFromRows(socket, channel, listener) ==
  Provision(NewSub(socket, channel, IdsFilter(RunListener(listener).rows),
                   listener))

provisionIdsSubscription(socket, channel, listener) ==
  Provision(NewSub(socket, channel, IdsFilter(listener.ids), listener))

provisionQuerySubscription(socket, channel, listener) ==
  Provision(NewSub(socket, channel, Always, listener))

removeListener(socket) == {x \in subs : x.socket # socket}

\* Mutant: the fan-out stops at the first single-entity subscription, whose
\* recompute can fail.
triggerAborting(c, ids) ==
  LET hit == {x \in subs : Matches(x, ids)} IN
  {[sub |-> s, call |-> c, ids |-> ids] :
     s \in IF \E x \in hit : x.listener.flavor = "one"
           THEN {x \in hit : x.listener.flavor = "one"} ELSE hit}

\* trigger(ids) called by mutating call c: the listener runs it starts.
trigger(c, ids) ==
  {[sub |-> s, call |-> c, ids |-> ids] : s \in {x \in subs : Matches(x, ids)}}

Frame(t, r) ==
  [sid |-> t.sub.sid, socket |-> t.sub.socket, channel |-> t.sub.channel,
   call |-> t.call, kind |-> IF r.ok THEN "data" ELSE "error", res |-> r]

\* Mutant: the result is emitted without looking the subscription up again.
EmitUnchecked(t, r) ==
  IF IsInitial(t) /\ ~r.ok THEN EmptyBag ELSE SetToBag({Frame(t, r)})

\* What the storage emits when the listener run t resolves with r.
Emit(t, r) ==
  IF t.sub \notin subs THEN EmptyBag
  ELSE IF IsInitial(t) /\ ~r.ok THEN EmptyBag
  ELSE SetToBag({Frame(t, r)})

\* A listener run resolves: its store read happens, and the storage pushes
\* the result, reports the failure, or discards it.
listenerResolves(t) ==
  LET r == RunListener(t.sub.listener) IN
  /\ t \in tasks
  /\ tasks' = tasks \ {t}
  /\ pushed' = pushed (+) Emit(t, r)
  /\ dropped' = IF t.sub \notin subs THEN dropped \cup {t} ELSE dropped
  /\ subCalls' = IF IsInitial(t)
                 THEN [subCalls EXCEPT ![t.sub.sid] =
                         IF ~r.ok THEN "NotFound"
                         ELSE IF t.sub \in subs THEN "ok" ELSE "cancelled"]
                 ELSE subCalls
  /\ UNCHANGED <<store, connected, subs, nextSid, calls, reads>>

----------------------------------------------------------------------------
(* subscriptions.*                                                          *)

oneEntitySubscription(socket, channel, id) ==
  provisionIdsSubscription(socket, channel, oneEntityListener(id))

manyEntitiesSubscription(socket, channel, ids) ==
  provisionIdsSubscription(socket, channel, manyEntitiesListener(ids))

\* Mutant: the query subscription is registered as an ids subscription.
querySubscriptionAsIds(socket, channel) ==
  provisionIdsSubscription(socket, channel, queryListener)

querySubscription(socket, channel) ==
  provisionQuerySubscription(socket, channel, queryListener)

\* Mutant: the disconnect does not reach the storage.
onDisconnectKeepingListeners(socket) ==
  /\ connected[socket]
  /\ connected' = [connected EXCEPT ![socket] = FALSE]
  /\ UNCHANGED <<store, subs, nextSid, subCalls, calls, tasks, pushed, dropped, reads>>

onDisconnect(socket) ==
  /\ connected[socket]
  /\ connected' = [connected EXCEPT ![socket] = FALSE]
  /\ subs' = removeListener(socket)
  /\ UNCHANGED <<store, nextSid, subCalls, calls, tasks, pushed, dropped, reads>>

----------------------------------------------------------------------------
(* Mutating calls.                                                          *)

Writes == {"update", "upsert", "upsertMany"}
Deletes == {"delete", "deleteMany"}

NoResult ==
  [ok |-> FALSE, rows |-> {}, at |-> [i \in Ids |-> 0],
   hits |-> 0, shape |-> "none"]

IdleCall ==
  [op |-> "none", ids |-> {}, pc |-> "idle", err |-> "none",
   wver |-> [i \in Ids |-> 0], seen |-> {}, ret |-> NoResult, trace |-> <<>>]

\* Calls are numbered in the order they are made.
CanStart(c) ==
  /\ WithinBudget
  /\ calls[c].pc = "idle"
  /\ \A d \in CallIds : d < c => calls[d].pc # "idle"

\* Mutant: a call whose write the store rejected goes on to its trigger and
\* fails afterwards.
WriteGoingOnAfterRejection(c, op, ids, accepted) ==
  /\ CanStart(c)
  /\ ids # {}
  /\ store' = IF ~accepted THEN store
              ELSE IF op \in Deletes THEN repoDelete(ids) ELSE repoSave(ids)
  /\ calls' = [calls EXCEPT ![c] =
        [@ EXCEPT !.op = op, !.ids = ids, !.pc = "wrote",
                  !.err = IF accepted THEN "none" ELSE "StoreFailure",
                  !.wver = [i \in Ids |-> store'[i].ver],
                  !.trace = <<"write">>]]
  /\ UNCHANGED <<connected, subs, nextSid, subCalls, tasks, pushed, dropped, reads>>

\* The store write of a call (lines "await this.repo.save/delete"), or its
\* rejection by the store, which the call propagates.
Write(c, op, ids, accepted) ==
  /\ CanStart(c)
  /\ ids # {}
  /\ IF accepted
     THEN /\ store' = IF op \in Deletes THEN repoDelete(ids) ELSE repoSave(ids)
          /\ calls' = [calls EXCEPT ![c] =
                [@ EXCEPT !.op = op, !.ids = ids, !.pc = "wrote",
                          !.wver = [i \in Ids |-> store'[i].ver],
                          !.trace = <<"write">>]]
     ELSE /\ store' = store
          /\ calls' = [calls EXCEPT ![c] =
                [@ EXCEPT !.op = op, !.ids = ids, !.pc = "failed",
                          !.err = "StoreFailure", !.trace = <<"throw">>]]
  /\ UNCHANGED <<connected, subs, nextSid, subCalls, tasks, pushed, dropped, reads>>

\* Mutant: the trigger is fired before the length of the input is looked at.
EmptyInputTriggering(c, op) ==
  /\ CanStart(c)
  /\ tasks' = tasks \cup trigger(c, {})
  /\ calls' = [calls EXCEPT ![c] =
        [@ EXCEPT !.op = op, !.pc = "done", !.ret = [NoResult EXCEPT !.ok = TRUE],
                  !.trace = <<"trigger", "return">>]]
  /\ UNCHANGED <<store, connected, subs, nextSid, subCalls, pushed, dropped, reads>>

\* upsertMany([]) and deleteMany([]): return [] at once.
EmptyInput(c, op) ==
  /\ CanStart(c)
  /\ calls' = [calls EXCEPT ![c] =
        [@ EXCEPT !.op = op, !.pc = "done", !.ret = [NoResult EXCEPT !.ok = TRUE],
                  !.trace = <<"return">>]]
  /\ UNCHANGED <<store, connected, subs, nextSid, subCalls, tasks, pushed, dropped, reads>>

update(c, id, accepted) == Write(c, "update", {id}, accepted)

upsert(c, id, accepted) == Write(c, "upsert", {id}, accepted)

upsertMany(c, ids, accepted) ==
  IF ids = {} THEN EmptyInput(c, "upsertMany")
  ELSE Write(c, "upsertMany", ids, accepted)

delete(c, id, accepted) == Write(c, "delete", {id}, accepted)

deleteMany(c, ids, accepted) ==
  IF ids = {} THEN EmptyInput(c, "deleteMany")
  ELSE Write(c, "deleteMany", ids, accepted)

\* The events of the continuation after the awaited write, in program order.
AfterWriteEvents(op) ==
  IF op \in Deletes THEN <<"trigger", "return">> ELSE <<"trigger", "reread">>

\* Mutant: the continuation forgets the trigger.
afterWriteWithoutTrigger(c) ==
  LET k == calls[c] IN
  /\ k.pc = "wrote"
  /\ calls' = [calls EXCEPT ![c] =
        [k EXCEPT !.pc = IF k.op \in Deletes THEN "done" ELSE "reread",
                  !.seen = {s.sid : s \in subs},
                  !.ret = IF k.op \in Deletes
                          THEN [ok |-> TRUE, rows |-> k.ids, at |-> k.wver,
                                hits |-> 0, shape |-> "ids"]
                          ELSE k.ret,
                  !.trace = k.trace \o Tail(AfterWriteEvents(k.op))]]
  /\ UNCHANGED <<store, connected, subs, nextSid, subCalls, tasks, pushed, dropped, reads>>

\* Mutant: the trigger is handed no ids.
AffectedIdsNone(k) == {}

\* The ids a call hands to the trigger: id, entity.id, or the ids of the batch.
AffectedIds(k) == k.ids

\* Mutant: the continuation fires one trigger per affected id.
afterWritePerId(c) ==
  LET k == calls[c] IN
  /\ k.pc = "wrote"
  /\ tasks' = tasks \cup UNION {trigger(c, {i}) : i \in AffectedIds(k)}
  /\ calls' = [calls EXCEPT ![c] =
        [k EXCEPT !.pc = IF k.op \in Deletes THEN "done" ELSE "reread",
                  !.seen = {s.sid : s \in subs},
                  !.ret = IF k.op \in Deletes
                          THEN [ok |-> TRUE, rows |-> k.ids, at |-> k.wver,
                                hits |-> 0, shape |-> "ids"]
                          ELSE k.ret,
                  !.trace = k.trace \o AfterWriteEvents(k.op)]]
  /\ UNCHANGED <<store, connected, subs, nextSid, subCalls, pushed, dropped, reads>>

\* The continuation after the awaited write: this.gatewaysStorage.trigger(ids),
\* then either `return ids` or the call of findOneOrFail / findMany.
afterWrite(c) ==
  LET k == calls[c] IN
  /\ k.pc = "wrote"
  /\ tasks' = tasks \cup trigger(c, AffectedIds(k))
  /\ calls' = [calls EXCEPT ![c] =
        [k EXCEPT !.pc = IF k.op \in Deletes THEN "done" ELSE "reread",
                  !.seen = {s.sid : s \in subs},
                  !.ret = IF k.op \in Deletes
                          THEN [ok |-> TRUE, rows |-> k.ids, at |-> k.wver,
                                hits |-> 0, shape |-> "ids"]
                          ELSE k.ret,
                  !.trace = k.trace \o AfterWriteEvents(k.op)]]
  /\ UNCHANGED <<store, connected, subs, nextSid, subCalls, pushed, dropped, reads>>

\* Mutant: update and upsert re-read with findOne, which never rejects.
ReReadNeverRejecting(op, ids) ==
  IF op = "upsertMany" THEN findMany(ids, FALSE)
  ELSE findOne(CHOOSE i \in ids : TRUE, FALSE)

\* The re-read of update / upsert (findOneOrFail) or upsertMany (findMany);
\* the calls are followed without a query spec.
ReRead(op, ids) ==
  IF op = "upsertMany" THEN findMany(ids, FALSE)
  ELSE findOneOrFail(CHOOSE i \in ids : TRUE, FALSE)

reRead(c) ==
  LET r == ReRead(calls[c].op, calls[c].ids) IN
  /\ calls[c].pc = "reread"
  /\ calls' = [calls EXCEPT ![c] =
        [@ EXCEPT !.pc = IF r.ok THEN "done" ELSE "failed",
                  !.err = IF r.ok THEN "none" ELSE "NotFound",
                  !.ret = r,
                  !.trace = Append(@, IF r.ok THEN "return" ELSE "throw")]]
  /\ UNCHANGED <<store, connected, subs, nextSid, subCalls, tasks, pushed, dropped, reads>>

----------------------------------------------------------------------------
(* Read calls.  A read call is one step: its store read, if it makes one.   *)
(* The record kept in `reads` holds what the call returned, the rows the    *)
(* store held at that moment and the mutating calls that had returned.      *)

ReadRecord(op, ids, q, r) ==
  [op |-> op, ids |-> ids, q |-> q, ret |-> r, present |-> Present,
   done |-> {c \in CallIds : calls[c].pc = "done"}]

Read(op, ids, q, r) ==
  /\ WithinBudget
  /\ reads' = Append(reads, ReadRecord(op, ids, q, r))
  /\ UNCHANGED <<store, connected, subs, nextSid, subCalls, calls, tasks, pushed,
                 dropped>>

callFindOneOrFail(id, q) == Read("findOneOrFail", {id}, q, findOneOrFail(id, q))

callFindOne(id, q) == Read("findOne", {id}, q, findOne(id, q))

callFindMany(ids, q) == Read("findMany", ids, q, findMany(ids, q))

callFindAll(q) == Read("findAll", {}, q, findAll(q))

callQuery == Read("query", {}, TRUE, query)

----------------------------------------------------------------------------

\* The calls the environment makes.  Sockets and channels are interchangeable,
\* so the first subscribe call is taken on (s1, a); a later one is on the same
\* pair, on another channel of the same socket, or on another socket.
SubscribeTargets ==
  IF nextSid = 1 THEN {<<"s1", "a">>}
  ELSE {<<"s1", "a">>, <<"s1", "b">>, <<"s2", "a">>}

\* A socket is followed from its first subscribe call to its disconnect.
LiveSockets == {x.socket : x \in subs}

ManyInputs == {{2}, Ids}

BulkInputs == {{}, Ids}

Init ==
  /\ store = [i \in Ids |-> [present |-> i = 1, ver |-> 0]]
  /\ connected = [s \in Sockets |-> TRUE]
  /\ subs = {}
  /\ nextSid = 1
  /\ subCalls = [i \in SubIds |-> "none"]
  /\ calls = [c \in CallIds |-> IdleCall]
  /\ tasks = {}
  /\ pushed = EmptyBag
  /\ dropped = {}
  /\ reads = <<>>

Next ==
  \/ \E p \in SubscribeTargets, i \in Ids : oneEntitySubscription(p[1], p[2], i)
  \/ \E p \in SubscribeTargets, is \in ManyInputs :
        manyEntitiesSubscription(p[1], p[2], is)
  \/ \E p \in SubscribeTargets : querySubscription(p[1], p[2])
  \/ \E s \in LiveSockets : onDisconnect(s)
  \/ \E t \in tasks : listenerResolves(t)
  \/ \E c \in CallIds, i \in Ids, a \in BOOLEAN : update(c, i, a)
  \/ \E c \in CallIds, i \in Ids, a \in BOOLEAN : upsert(c, i, a)
  \/ \E c \in CallIds, is \in BulkInputs, a \in BOOLEAN : upsertMany(c, is, a)
  \/ \E c \in CallIds, i \in Ids, a \in BOOLEAN : delete(c, i, a)
  \/ \E c \in CallIds, is \in BulkInputs, a \in BOOLEAN : deleteMany(c, is, a)
  \/ \E c \in CallIds : afterWrite(c)
  \/ \E c \in CallIds : reRead(c)

Spec == Init /\ [][Next]_vars

\* The same program with the read calls among the calls the environment makes.
NextReads ==
  \/ Next
  \/ \E i \in Ids, q \in BOOLEAN : callFindOneOrFail(i, q)
  \/ \E i \in Ids, q \in BOOLEAN : callFindOne(i, q)
  \/ \E is \in BulkInputs, q \in BOOLEAN : callFindMany(is, q)
  \/ \E q \in BOOLEAN : callFindAll(q)
  \/ callQuery

SpecReads == Init /\ [][NextReads]_vars

----------------------------------------------------------------------------
(* Vocabulary of the properties.                                            *)

Frames == BagToSet(pushed)

\* Frames subscription sid received from the trigger of call c (c = 0: from
\* its own subscribe call).
FramesOf(sid, c) == {f \in Frames : f.sid = sid /\ f.call = c}

NoFrame(sid, c) == FramesOf(sid, c) = {}

ExactlyOneFrame(sid, c) ==
  /\ Cardinality(FramesOf(sid, c)) = 1
  /\ \A f \in FramesOf(sid, c) : CopiesIn(f, pushed) = 1

TasksOf(c) == {t \in tasks : t.call = c}

Position(tr, e) ==
  IF \E n \in 1..Len(tr) : tr[n] = e
  THEN CHOOSE n \in 1..Len(tr) : tr[n] = e
  ELSE 0

Happened(c, e) == Position(calls[c].trace, e) > 0

Before(c, e1, e2) ==
  /\ Happened(c, e1)
  /\ Position(calls[c].trace, e1) < Position(calls[c].trace, e2)

\* Call c has fired its trigger and every recompute it started has resolved.
FannedOut(c) == Happened(c, "trigger") /\ TasksOf(c) = {}

\* Subscription s was Active when call c fired its trigger and still is.
ActiveSince(s, c) == s \in subs /\ s.sid \in calls[c].seen

\* The identity filter of s is an id set that holds one of ids.
FilterIncludes(s, ids) == ~s.filter.always /\ s.filter.ids \cap ids # {}

\* The read result r is not older than what call c wrote.
PostWrite(r, c) == \A i \in calls[c].ids : r.at[i] >= calls[c].wver[i]

NewFrames == {f \in BagToSet(pushed') : CopiesIn(f, pushed') > CopiesIn(f, pushed)}

----------------------------------------------------------------------------
(* C1 *)

SucceededUpdate(c) ==
  calls[c].op = "update" /\ calls[c].pc = "done" /\ FannedOut(c)

\* C1 as stated: after update(id, patch) has succeeded (and the recomputes its
\* trigger started have resolved), every Active subscription whose identity
\* filter includes id has received exactly one push, a data frame that reflects
\* the post-write state, and every Active subscription whose filter is an id
\* set without id has received nothing from that call.
C1_ExactlyOnePush ==
  \A c \in CallIds : SucceededUpdate(c) =>
    \A s \in subs : ActiveSince(s, c) /\ ~s.filter.always =>
      IF FilterIncludes(s, calls[c].ids)
      THEN /\ ExactlyOneFrame(s.sid, c)
           /\ \A f \in FramesOf(s.sid, c) : f.kind = "data" /\ PostWrite(f.res, c)
      ELSE NoFrame(s.sid, c)

\* C1 amended: the one frame is a push reflecting the post-write state or,
\* when a concurrent delete removed the row before the single-entity recompute
\* ran, the NotFound report of that recompute; in both cases it was computed
\* from a store state not older than the update's write.
C1_ExactlyOneFrame ==
  \A c \in CallIds : SucceededUpdate(c) =>
    \A s \in subs : ActiveSince(s, c) /\ ~s.filter.always =>
      IF FilterIncludes(s, calls[c].ids)
      THEN /\ ExactlyOneFrame(s.sid, c)
           /\ \A f \in FramesOf(s.sid, c) :
                /\ PostWrite(f.res, c)
                /\ f.kind = "error" =>
                     /\ s.listener.flavor = "one"
                     /\ \E i \in calls[c].ids : f.res.at[i] > calls[c].wver[i]
      ELSE NoFrame(s.sid, c)

C1_Witness ==
  \E c \in CallIds : SucceededUpdate(c) /\
    /\ \E s \in subs : ActiveSince(s, c) /\ FilterIncludes(s, calls[c].ids)
                       /\ \E f \in FramesOf(s.sid, c) : f.kind = "data"
    /\ \E s \in subs : ActiveSince(s, c) /\ ~s.filter.always
                       /\ ~FilterIncludes(s, calls[c].ids)

----------------------------------------------------------------------------
(* C2 *)

\* C2: in every mutating call with non-empty input the trigger is fired only
\* after the store write has completed, the re-read is started only after the
\* trigger, the call returns only after the trigger, and listener runs tagged
\* with the call exist only once its write is in the store.
C2_WriteTriggerReread ==
  \A c \in CallIds :
    /\ Happened(c, "trigger") => Before(c, "write", "trigger")
    /\ Happened(c, "reread") => Before(c, "trigger", "reread")
    /\ Happened(c, "return") /\ calls[c].ids # {} => Before(c, "trigger", "return")
    /\ calls[c].pc \in {"reread", "done"} /\ calls[c].ids # {} => Happened(c, "trigger")
    /\ TasksOf(c) # {} => Happened(c, "write")
    /\ \A f \in Frames : f.call = c => PostWrite(f.res, c)

C2_Witness ==
  /\ \E c \in CallIds : calls[c].op \in Writes
        /\ calls[c].trace = <<"write", "trigger", "reread", "return">>
  /\ \E c \in CallIds : calls[c].op \in Deletes
        /\ calls[c].trace = <<"write", "trigger", "return">>

----------------------------------------------------------------------------
(* C3 *)

\* C3 as stated: no push that results from the trigger of a mutating call is
\* older than the value that call returns to its own caller.
C3_PushNotOlderThanReturn ==
  \A c \in CallIds : calls[c].op \in Writes /\ calls[c].pc = "done" =>
    \A f \in Frames : f.call = c =>
      \A i \in calls[c].ids : f.res.at[i] >= calls[c].ret.at[i]

----------------------------------------------------------------------------
(* C4 *)

SubsOf(socket, registry) == {x \in registry : x.socket = socket}

\* C4: once a socket has disconnected, the registry holds no subscription of
\* it on any channel, no trigger starts a recompute for it, and no frame is
\* emitted to it.
C4_DisconnectRemovesAll ==
  [][\A s \in Sockets :
       /\ ~connected'[s] => SubsOf(s, subs') = {}
       /\ ~connected[s] =>
            /\ \A t \in tasks' \ tasks : t.sub.socket # s
            /\ \A f \in NewFrames : f.socket # s]_vars

\* A socket that held subscriptions on two channels has disconnected, and a
\* mutating call on every id has since fired its trigger.
C4_Witness ==
  \E s \in Sockets :
    /\ ~connected[s]
    /\ \E i, j \in SubIds : i # j /\ subCalls[i] = "ok" /\ subCalls[j] = "ok"
         /\ \E f, g \in Frames : f.sid = i /\ g.sid = j /\ f.socket = s
                                 /\ g.socket = s /\ f.channel # g.channel
    /\ \E c \in CallIds : Happened(c, "trigger") /\ calls[c].seen = {}
                            /\ calls[c].ids = Ids

----------------------------------------------------------------------------
(* C5 *)

OnePerPair(registry) ==
  \A x, y \in registry :
    x.socket = y.socket /\ x.channel = y.channel => x = y

\* C5: the registry never holds two subscriptions for one (socket, channel)
\* pair, whatever the flavors subscribed, and a frame is only ever emitted for
\* a subscription the registry holds: a replaced one receives nothing more.
C5_OnePerPair ==
  [][/\ OnePerPair(subs')
     /\ \A f \in NewFrames : \E x \in subs : x.sid = f.sid]_vars

\* A subscription was replaced on its pair, and the new one has received a frame from a trigger fired after the replacement.
C5_Witness ==
  \E x \in subs : \E c \in CallIds :
    /\ x.sid = 2
    /\ connected[x.socket]
    /\ subs = {x}
    /\ calls[c].seen = {2}
    /\ \E f \in FramesOf(2, c) : TRUE
    /\ \E f \in FramesOf(1, 0) : f.socket = x.socket /\ f.channel = x.channel

----------------------------------------------------------------------------
(* C6 *)

RecomputeFailed(c) == \E f \in Frames : f.call = c /\ f.kind = "error"

\* C6: when a recompute started by the trigger of call c has failed, the
\* failure is a frame on the failing subscription's own channel, every
\* subscription that matched and is still Active has its one frame once the
\* fan-out is over, and the call ends as it would have without the failure: a
\* delete returns its ids, a write fails only if its own re-read found no row.
C6_FailureIsolated ==
  \A c \in CallIds : RecomputeFailed(c) =>
    /\ FannedOut(c) =>
         \A s \in subs : ActiveSince(s, c)
                         /\ (s.filter.always \/ FilterIncludes(s, calls[c].ids)) =>
           /\ ExactlyOneFrame(s.sid, c)
           /\ s.listener.flavor # "one" =>
                \A f \in FramesOf(s.sid, c) : f.kind = "data"
    /\ calls[c].op \in Deletes =>
         calls[c].pc = "done" /\ calls[c].ret.ok /\ calls[c].ret.rows = calls[c].ids
    /\ calls[c].op \in Writes /\ calls[c].pc = "failed" =>
         calls[c].err = "NotFound" /\ calls[c].ret.rows = {}

\* delete(id) has returned id; of two subscriptions its trigger matched, one
\* got the NotFound report and the other its push.
C6_Witness ==
  \E c \in CallIds :
    /\ calls[c].op = "delete" /\ calls[c].pc = "done" /\ FannedOut(c)
    /\ \E x, y \in subs :
         /\ x # y /\ ActiveSince(x, c) /\ ActiveSince(y, c)
         /\ \E f \in FramesOf(x.sid, c) : f.kind = "error"
         /\ \E f \in FramesOf(y.sid, c) : f.kind = "data"

----------------------------------------------------------------------------
(* C7 *)

SingleEntityOn(s, ids) == s.listener.flavor = "one" /\ s.listener.ids = ids

\* C7 as stated: after delete(id), an Active single-entity subscription on id
\* has received exactly one frame from the call, the NotFound report of its
\* recompute.
C7_DeleteReportsNotFound ==
  \A c \in CallIds : calls[c].op = "delete" /\ FannedOut(c) =>
    \A s \in subs : ActiveSince(s, c) /\ SingleEntityOn(s, calls[c].ids) =>
      /\ ExactlyOneFrame(s.sid, c)
      /\ \A f \in FramesOf(s.sid, c) : f.kind = "error"

\* C7 amended: the subscription is notified exactly once; the recompute fails
\* with NotFound, and the failure is the frame on its channel, unless a
\* concurrent write has put the row back before the recompute read it.
C7_DeleteNotifies ==
  \A c \in CallIds : calls[c].op = "delete" /\ FannedOut(c) =>
    \A s \in subs : ActiveSince(s, c) /\ SingleEntityOn(s, calls[c].ids) =>
      /\ ExactlyOneFrame(s.sid, c)
      /\ \A f \in FramesOf(s.sid, c) :
           /\ f.socket = s.socket /\ f.channel = s.channel
           /\ PostWrite(f.res, c)
           /\ (\A i \in calls[c].ids : f.res.at[i] = calls[c].wver[i]) =>
                f.kind = "error" /\ f.res.rows = {}
           /\ f.kind = "data" => f.res.rows = calls[c].ids

C7_Witness ==
  \E c \in CallIds : calls[c].op = "delete" /\ FannedOut(c) /\
    \E s \in subs : ActiveSince(s, c) /\ SingleEntityOn(s, calls[c].ids)
                    /\ \E f \in FramesOf(s.sid, c) : f.kind = "error"

----------------------------------------------------------------------------
(* C8 *)

\* C8: a listener run that resolves when its socket has disconnected emits
\* nothing: its result is discarded.
C8_InFlightDiscarded ==
  [][\A t \in tasks \ tasks' :
       ~connected[t.sub.socket] => pushed' = pushed /\ t \in dropped']_vars

\* The recompute a trigger started was in flight when its socket disconnected.
C8_Witness ==
  \E t \in dropped : t.call # 0 /\ ~connected[t.sub.socket]

----------------------------------------------------------------------------
(* C9 *)

Returned(sid) == subCalls[sid] \in {"ok", "NotFound", "cancelled"}

\* C9 as stated: a subscribe call that has returned has pushed exactly one
\* initial snapshot to its connection and channel.
C9_SnapshotBeforeReturn ==
  \A sid \in SubIds : Returned(sid) =>
    /\ ExactlyOneFrame(sid, 0)
    /\ \A f \in FramesOf(sid, 0) : f.kind = "data"

RemovedOrReplaced(x) ==
  \/ ~connected'[x.socket]
  \/ \E y \in subs' : y.socket = x.socket /\ y.channel = x.channel /\ y.sid # x.sid

\* C9 amended: a subscribe call runs its listener once.  If the run succeeds
\* and the subscription is still registered, exactly one snapshot is pushed to
\* its socket and channel before the call returns; a single-entity subscribe
\* on an id without a row rejects with NotFound and pushes nothing; a
\* subscription replaced or disconnected during the run gets no snapshot.  A
\* registered subscription stays Active until it is replaced or its socket
\* disconnects.
C9_SnapshotUnlessFailed ==
  /\ [](\A sid \in SubIds :
          /\ subCalls[sid] \in {"none", "pending", "NotFound", "cancelled"} =>
               NoFrame(sid, 0)
          /\ subCalls[sid] = "pending" <=> \E t \in TasksOf(0) : t.sub.sid = sid
          /\ subCalls[sid] = "ok" =>
               /\ ExactlyOneFrame(sid, 0)
               /\ \A f \in FramesOf(sid, 0) :
                    /\ f.kind = "data"
                    /\ \A t \in dropped : t.sub.sid # sid \/ t.call # 0
          /\ subCalls[sid] = "cancelled" => \A x \in subs : x.sid # sid)
  /\ [](\A x \in subs :
          /\ subCalls[x.sid] = "ok" =>
               \A f \in FramesOf(x.sid, 0) :
                 /\ f.socket = x.socket /\ f.channel = x.channel
                 /\ x.listener.flavor = "one" => f.res.rows = x.listener.ids
          /\ subCalls[x.sid] = "NotFound" => x.listener.flavor = "one")
  /\ [][\A x \in subs : x \notin subs' => RemovedOrReplaced(x)]_vars

\* One subscribe call has pushed its snapshot and its subscription is Active;
\* another was rejected with NotFound.
C9_Witness ==
  /\ \E x \in subs : subCalls[x.sid] = "ok" /\ ExactlyOneFrame(x.sid, 0)
  /\ \E sid \in SubIds : subCalls[sid] = "NotFound"

----------------------------------------------------------------------------
(* C10 *)

\* C10: an Active arbitrary-query subscription has, once the fan-out of a
\* trigger is over, exactly one push from it, whatever mutating call fired the
\* trigger and whatever ids it carried.
C10_QueryAlwaysPushed ==
  \A c \in CallIds : FannedOut(c) =>
    \A s \in subs : ActiveSince(s, c) /\ s.listener.flavor = "query" =>
      /\ ExactlyOneFrame(s.sid, c)
      /\ \A f \in FramesOf(s.sid, c) : f.kind = "data" /\ PostWrite(f.res, c)

\* A query subscription was pushed by a delete and by a write.
C10_Witness ==
  \E s \in subs : s.listener.flavor = "query" /\
    \E c, d \in CallIds :
      /\ calls[c].op \in Deletes /\ calls[d].op \in Writes
      /\ FannedOut(c) /\ FannedOut(d)
      /\ ExactlyOneFrame(s.sid, c) /\ ExactlyOneFrame(s.sid, d)

----------------------------------------------------------------------------
(* C11 *)

ReadsMade == {reads[n] : n \in 1..Len(reads)}

EmptyBulk(k) == k.op \in {"upsertMany", "deleteMany"} /\ k.ids = {}

\* C11: findMany([]), upsertMany([]) and deleteMany([]) return an empty list
\* and make no call on the store: no read, no write, no delete, and the rows
\* are what they were.
C11_EmptyInputShortCircuits ==
  /\ [](\A r \in ReadsMade : r.op = "findMany" /\ r.ids = {} =>
          r.ret.ok /\ r.ret.rows = {} /\ r.ret.hits = 0)
  /\ [](\A c \in CallIds : EmptyBulk(calls[c]) =>
          /\ calls[c].pc = "done"
          /\ calls[c].ret.ok /\ calls[c].ret.rows = {} /\ calls[c].ret.hits = 0
          /\ calls[c].trace = <<"return">>)
  /\ [][(\/ \E c \in CallIds : calls[c].pc = "idle" /\ EmptyBulk(calls'[c])
         \/ /\ Len(reads') > Len(reads)
            /\ reads'[Len(reads')].op = "findMany"
            /\ reads'[Len(reads')].ids = {})
        => store' = store]_vars

\* The three calls were made on empty input, findMany with a query spec.
C11_Witness ==
  /\ \E r \in ReadsMade : r.op = "findMany" /\ r.ids = {} /\ r.q
  /\ \E c, d \in CallIds :
       /\ calls[c].op = "upsertMany" /\ EmptyBulk(calls[c])
       /\ calls[d].op = "deleteMany" /\ EmptyBulk(calls[d])

----------------------------------------------------------------------------
(* C12 *)

\* The read r asked for one id, and the store held no row of it.
OnAbsentRow(r, op) == r.op = op /\ r.ids \cap r.present = {}

\* C12: on an id without a row, findOneOrFail is rejected (NotFound) and
\* returns nothing, findOne returns the absent result and is not rejected,
\* both with and without a query spec.
C12_AbsentRow ==
  \A r \in ReadsMade :
    /\ OnAbsentRow(r, "findOneOrFail") =>
         ~r.ret.ok /\ r.ret.rows = {} /\ r.ret.hits = 1
    /\ OnAbsentRow(r, "findOne") =>
         r.ret.ok /\ r.ret.rows = {} /\ r.ret.hits = 1

\* Both were called on an id without a row, with a query spec and without.
C12_Witness ==
  \E r1, r2, r3 \in ReadsMade :
    /\ OnAbsentRow(r1, "findOneOrFail") /\ r1.q
    /\ OnAbsentRow(r2, "findOne") /\ r2.q
    /\ OnAbsentRow(r3, "findOne") /\ ~r3.q

----------------------------------------------------------------------------
(* C13 *)

\* The read r is findOneOrFail on the id of call c and met the store as the
\* write of c left it: no mutating call wrote in between.
ReadsWriteOf(r, c) ==
  /\ Happened(c, "write")
  /\ r.op = "findOneOrFail" /\ r.ids = calls[c].ids
  /\ r.ret.at = calls[c].wver

\* C13: findOneOrFail(entity.id) after upsert(entity), no other mutating call
\* having written in between, returns the row as the upsert wrote it; and
\* what upsert itself returns is the row at the version it wrote or a later
\* one.
C13_ReadAfterUpsert ==
  \A c \in CallIds : calls[c].op = "upsert" =>
    /\ \A r \in ReadsMade : ReadsWriteOf(r, c) =>
         r.ret.ok /\ r.ret.rows = calls[c].ids
    /\ calls[c].pc = "done" =>
         /\ calls[c].ret.ok /\ calls[c].ret.rows = calls[c].ids
         /\ \A i \in calls[c].ids : calls[c].ret.at[i] >= calls[c].wver[i]

\* upsert has inserted the row of id 2, which the store did not hold, as the
\* first write of that id; it has returned, and the findOneOrFail made after
\* its return met what it wrote.
C13_Witness ==
  \E c \in CallIds : \E r \in ReadsMade :
    /\ calls[c].op = "upsert" /\ calls[c].pc = "done"
    /\ c \in r.done /\ ReadsWriteOf(r, c)
    /\ calls[c].ids = {2} /\ calls[c].wver[2] = 1

----------------------------------------------------------------------------
(* C14 *)

Bulk(k) == k.op \in {"upsertMany", "deleteMany"} /\ k.ids # {}

Occurrences(tr, e) == Cardinality({n \in 1..Len(tr) : tr[n] = e})

\* C14: upsertMany and deleteMany on a non-empty input fire the trigger once,
\* with all the affected ids; a subscription Active through the fan-out whose
\* filter holds several of these ids has one listener run and, at the end,
\* exactly one push from the call.
C14_OneBatchedTrigger ==
  \A c \in CallIds : Bulk(calls[c]) =>
    /\ Occurrences(calls[c].trace, "trigger") <= 1
    /\ \A t \in TasksOf(c) \cup {d \in dropped : d.call = c} :
         t.ids = calls[c].ids
    /\ FannedOut(c) =>
         \A s \in subs :
           ActiveSince(s, c) /\ Cardinality(s.filter.ids \cap calls[c].ids) > 1
             => ExactlyOneFrame(s.sid, c)

\* A subscription on both ids was pushed once by upsertMany and once by
\* deleteMany, each on both ids.
C14_Witness ==
  \E s \in subs : \E c, d \in CallIds :
    /\ calls[c].op = "upsertMany" /\ calls[d].op = "deleteMany"
    /\ Bulk(calls[c]) /\ Bulk(calls[d])
    /\ Cardinality(s.filter.ids \cap calls[c].ids) > 1
    /\ Cardinality(s.filter.ids \cap calls[d].ids) > 1
    /\ FannedOut(c) /\ FannedOut(d)
    /\ ExactlyOneFrame(s.sid, c) /\ ExactlyOneFrame(s.sid, d)

----------------------------------------------------------------------------
(* C15 *)

Rejected(k) == k.err = "StoreFailure"

\* C15: a mutating call whose write the store rejects fails with the store's
\* error at once: it fires no trigger, starts no listener run and causes no
\* push, and its step leaves the rows, the registry, the listener runs in
\* flight and the pushes as they were.
C15_RejectedWrite ==
  /\ [](\A c \in CallIds : Rejected(calls[c]) =>
          /\ calls[c].op \in Writes \cup Deletes
          /\ calls[c].pc = "failed" /\ calls[c].trace = <<"throw">>
          /\ TasksOf(c) = {} /\ {d \in dropped : d.call = c} = {}
          /\ \A f \in Frames : f.call # c)
  /\ [][\A c \in CallIds : ~Rejected(calls[c]) /\ Rejected(calls'[c]) =>
          UNCHANGED <<store, subs, tasks, pushed>>]_vars

\* The store rejected a save and a delete on ids that an Active subscription,
\* which has had its snapshot, is subscribed to.
C15_Witness ==
  \E c, d \in CallIds : \E s \in subs :
    /\ Rejected(calls[c]) /\ calls[c].op \in Writes
    /\ Rejected(calls[d]) /\ calls[d].op \in Deletes
    /\ Matches(s, calls[c].ids) /\ Matches(s, calls[d].ids)
    /\ subCalls[s.sid] = "ok" /\ tasks = {}

----------------------------------------------------------------------------
(* C16 *)

\* A step of the program that takes exactly subscription x out of the
\* registry, for a socket that stays connected: what unsubscribe(connection,
\* channel) would be.
Unsubscribes(x) ==
  /\ Next
  /\ subs' = subs \ {x}
  /\ connected' = connected

\* C16: the connection layer can unsubscribe one (connection, channel) pair:
\* for every Active subscription the program offers a step that removes it
\* alone and leaves every other subscription Active.
C16_CanUnsubscribe == \A x \in subs : ENABLED Unsubscribes(x)

----------------------------------------------------------------------------
(* C17 *)

Many(s) == s.listener.flavor = "many"

----------------------------------------------------------------------------
(* C18 *)

SingleWrite(k) == k.op \in {"update", "upsert"}

\* C18 as stated: update and upsert fail only when the store write fails; a
\* call whose write succeeded never fails, whatever runs between its write
\* and its re-read.
C18_FailsOnlyOnStoreFailure ==
  \A c \in CallIds :
    SingleWrite(calls[c]) /\ Happened(c, "write") => calls[c].pc # "failed"

\* C18, amended: update and upsert fail with the store's error when the write
\* is rejected, and with NotFound when the re-read meets no row, which takes
\* a later write of that id (a delete) between the write and the re-read;
\* otherwise the call returns the re-read row, at the version it wrote or a
\* later one.
C18_FailsOnStoreOrMissingRow ==
  \A c \in CallIds : SingleWrite(calls[c]) =>
    /\ calls[c].pc = "failed" => calls[c].err \in {"StoreFailure", "NotFound"}
    /\ calls[c].err = "StoreFailure" => ~Happened(c, "write")
    /\ calls[c].err = "NotFound" =>
         /\ calls[c].pc = "failed" /\ Happened(c, "reread")
         /\ calls[c].ret.rows = {}
         /\ \A i \in calls[c].ids : calls[c].ret.at[i] > calls[c].wver[i]
    /\ calls[c].pc = "done" =>
         /\ calls[c].ret.ok /\ calls[c].ret.rows = calls[c].ids
         /\ \A i \in calls[c].ids : calls[c].ret.at[i] >= calls[c].wver[i]

\* An update or upsert whose write was accepted failed with NotFound, a
\* delete of the same id having returned.
C18_Witness ==
  \E c, d \in CallIds :
    /\ SingleWrite(calls[c]) /\ Happened(c, "write")
    /\ calls[c].err = "NotFound"
    /\ calls[d].op = "delete" /\ calls[d].ids = calls[c].ids
    /\ calls[d].pc = "done"

----------------------------------------------------------------------------
(* C19 *)

\* The step is a read call, or upsertMany / deleteMany on the empty list.
ReadOrEmptyStep ==
  \/ Len(reads') > Len(reads)
  \/ \E c \in CallIds : calls[c].pc = "idle" /\ EmptyBulk(calls'[c])

\* C19: findOne, findOneOrFail, findMany, findAll, query, upsertMany([]) and
\* deleteMany([]) fire no trigger: their step leaves the rows, the registry,
\* the listener runs in flight and the pushes as they were, and no listener
\* run or push is ever attributed to an empty bulk call.
C19_ReadsFireNoTrigger ==
  /\ [][ReadOrEmptyStep => UNCHANGED <<store, subs, tasks, pushed, dropped>>]_vars
  /\ [](\A c \in CallIds : EmptyBulk(calls[c]) =>
          /\ ~Happened(c, "trigger")
          /\ TasksOf(c) = {}
          /\ \A f \in Frames : f.call # c)

\* A read call and an empty bulk call were made next to an Active query
\* subscription, which has been pushed its snapshot and nothing else.
C19_Witness ==
  \E s \in subs : \E c \in CallIds :
    /\ s.listener.flavor = "query" /\ subCalls[s.sid] = "ok"
    /\ ReadsMade # {}
    /\ EmptyBulk(calls[c])
    /\ tasks = {}
    /\ \A f \in Frames : f.sid = s.sid /\ f.call = 0

====
